---------------------------- MODULE Spec2Model ----------------------------
(***************************************************************************)
(* Model of pyutils/calculate_transit_density.py: the calendar resolver    *)
(* and feed window (get_service_active_days), the per-feed pipeline        *)
(* (process_feed) and the multi-feed driver (main).                        *)
(*                                                                         *)
(* Tables (pandas DataFrames) are sequences of row records.  Dictionaries  *)
(* are functions.  Frequencies and densities are exact rationals           *)
(* [num, den] in lowest terms (float rounding is not modelled).  Stop and  *)
(* area geometries are given in the projected plane (EPSG:3763): points    *)
(* and axis-parallel rectangles on an integer grid.                        *)
(***************************************************************************)
EXTENDS Integers, Sequences, FiniteSets, TLC

VARIABLES pc, areas_present, areas_gdf, idx, fs, feed, out, results, final_gdf, log

vars == <<pc, areas_present, areas_gdf, idx, fs, feed, out, results, final_gdf, log>>

----------------------------------------------------------------------------
(* Bounds of the model *)

\* the first calendar day of generated rows (2024-01-01, a Monday), as YYYYMMDD
FirstDay == 20240101
\* number of consecutive valid calendar days, from FirstDay, in generated rows
NumDays == 2
\* rows of a generated calendar.txt
MaxRules == 1
\* rows of a generated calendar_dates.txt
MaxExceptions == 1
\* rows of a generated trips.txt, stop_times.txt and stops.txt
MaxTrips == 1
MaxStopTimes == 1
MaxStops == 1

----------------------------------------------------------------------------
(* Generic helpers *)

SetMin(S) == CHOOSE x \in S : \A y \in S : x <= y
SetMax(S) == CHOOSE x \in S : \A y \in S : y <= x

RECURSIVE SeqsUpTo(_, _)
SeqsUpTo(S, n) ==
    IF n = 0 THEN {<<>>}
    ELSE LET shorter == SeqsUpTo(S, n - 1)
         IN  shorter \cup {Append(s, x) : s \in {t \in shorter : Len(t) = n - 1}, x \in S}

\* the orderings of a list
Orderings(seq) ==
    {[i \in 1..Len(seq) |-> seq[f[i]]] :
        f \in {g \in [1..Len(seq) -> 1..Len(seq)] :
                  \A i, j \in 1..Len(seq) : i # j => g[i] # g[j]}}

----------------------------------------------------------------------------
(* datetime: proleptic Gregorian ordinals, as datetime.strptime / toordinal *)
(* / weekday compute them.                                                  *)

None == -1

IsLeap(y) == (y % 4 = 0) /\ ((y % 100 # 0) \/ (y % 400 = 0))

DaysInMonth(y, m) ==
    IF m = 2 THEN (IF IsLeap(y) THEN 29 ELSE 28)
    ELSE IF m \in {4, 6, 9, 11} THEN 30 ELSE 31

DaysBeforeYear(y) == (y - 1) * 365 + ((y - 1) \div 4) - ((y - 1) \div 100) + ((y - 1) \div 400)

DaysBeforeMonth(y, m) ==
    <<0, 31, 59, 90, 120, 151, 181, 212, 243, 273, 304, 334>>[m]
    + (IF m > 2 /\ IsLeap(y) THEN 1 ELSE 0)

ToOrdinal(y, m, d) == DaysBeforeYear(y) + DaysBeforeMonth(y, m) + d

\* datetime.weekday(): Monday is 0
Weekday(ord) == (ord + 6) % 7

\* A date cell is [digits, frac]: str(cell) is the 8 digits, followed by ".0"
\* when frac.  str(date_str).split('.')[0] keeps the digits.
parse_gtfs_date(date_str) ==
    LET n == date_str.digits
        y == n \div 10000
        m == (n \div 100) % 100
        d == n % 100
    IN  IF y >= 1 /\ m \in 1..12 /\ d >= 1 /\ d <= DaysInMonth(y, m)
        THEN ToOrdinal(y, m, d)
        ELSE None

----------------------------------------------------------------------------
(* pandas Series.min() / .max() over a column of date cells (numeric order) *)

Column(rows, col) == {rows[i][col] : i \in 1..Len(rows)}

SeriesMin(cells) == CHOOSE c \in cells : \A o \in cells : c.digits <= o.digits
SeriesMax(cells) == CHOOSE c \in cells : \A o \in cells : o.digits <= c.digits

----------------------------------------------------------------------------
(* get_service_active_days *)

\* calendar_df is None when the feed has no calendar.txt
CalendarNone == [present |-> FALSE, rows |-> <<>>]

\* dates_sources, after dropping None
DatesSourcesStartOnly(calendar_df, calendar_dates_df) ==
    LET fromCal == IF calendar_df.present /\ calendar_df.rows # <<>>
                   THEN {parse_gtfs_date(SeriesMin(Column(calendar_df.rows, "start_date")))}
                   ELSE {}
        fromExc == IF calendar_dates_df # <<>>
                   THEN {parse_gtfs_date(SeriesMin(Column(calendar_dates_df, "date"))),
                         parse_gtfs_date(SeriesMax(Column(calendar_dates_df, "date")))}
                   ELSE {}
    IN  (fromCal \cup fromExc) \ {None}

DatesSourcesFirstLast(calendar_df, calendar_dates_df) ==
    LET fromCal == IF calendar_df.present /\ calendar_df.rows # <<>>
                   THEN {parse_gtfs_date(calendar_df.rows[1].start_date),
                         parse_gtfs_date(calendar_df.rows[Len(calendar_df.rows)].end_date)}
                   ELSE {}
        fromExc == IF calendar_dates_df # <<>>
                   THEN {parse_gtfs_date(calendar_dates_df[1].date),
                         parse_gtfs_date(calendar_dates_df[Len(calendar_dates_df)].date)}
                   ELSE {}
    IN  (fromCal \cup fromExc) \ {None}

DatesSources(calendar_df, calendar_dates_df) ==
    LET fromCal == IF calendar_df.present /\ calendar_df.rows # <<>>
                   THEN {parse_gtfs_date(SeriesMin(Column(calendar_df.rows, "start_date"))),
                         parse_gtfs_date(SeriesMax(Column(calendar_df.rows, "end_date")))}
                   ELSE {}
        fromExc == IF calendar_dates_df # <<>>
                   THEN {parse_gtfs_date(SeriesMin(Column(calendar_dates_df, "date"))),
                         parse_gtfs_date(SeriesMax(Column(calendar_dates_df, "date")))}
                   ELSE {}
    IN  (fromCal \cup fromExc) \ {None}

\* exceptions[sid][date] = etype, later rows overwriting earlier ones
ExceptionsDict(calendar_dates_df) ==
    LET usable == {i \in 1..Len(calendar_dates_df) :
                      parse_gtfs_date(calendar_dates_df[i].date) # None}
        sids == {calendar_dates_df[i].service_id : i \in usable}
        datesOf(sid) == {parse_gtfs_date(calendar_dates_df[i].date) :
                            i \in {j \in usable : calendar_dates_df[j].service_id = sid}}
        lastRow(sid, d) == SetMax({i \in usable :
                                      /\ calendar_dates_df[i].service_id = sid
                                      /\ parse_gtfs_date(calendar_dates_df[i].date) = d})
    IN  [sid \in sids |->
            [d \in datesOf(sid) |-> calendar_dates_df[lastRow(sid, d)].exception_type]]

\* the resolved state of one date of a calendar row (lines 163-165)
IsActiveNoOverride(row, current, sid, exceptions) ==
    row.days[Weekday(current) + 1] = 1

IsActive(row, current, sid, exceptions) ==
    IF sid \in DOMAIN exceptions /\ current \in DOMAIN exceptions[sid]
    THEN exceptions[sid][current] = 1
    ELSE row.days[Weekday(current) + 1] = 1

\* the while loop over start..end of one calendar row (lines 160-169)
RuleCountSigned(row, start, end, exceptions) ==
    IF start <= end
    THEN Cardinality({current \in start..end :
                         IsActive(row, current, row.service_id, exceptions)})
    ELSE (end - start) + 1

RuleCountWithOutside(row, start, end, exceptions) ==
    Cardinality({current \in start..end :
                    IsActive(row, current, row.service_id, exceptions)})
    + (IF row.service_id \in DOMAIN exceptions
       THEN Cardinality({d \in DOMAIN exceptions[row.service_id] :
                            /\ (d < start \/ d > end)
                            /\ exceptions[row.service_id][d] = 1})
       ELSE 0)

RuleCount(row, start, end, exceptions) ==
    Cardinality({current \in start..end :
                    IsActive(row, current, row.service_id, exceptions)})

CalendarCountsPositiveOnly(calendar_df, exceptions) ==
    LET rows == calendar_df.rows
        usable == {i \in 1..Len(rows) :
                      /\ parse_gtfs_date(rows[i].start_date) # None
                      /\ parse_gtfs_date(rows[i].end_date) # None}
        lastRow(sid) == SetMax({i \in usable : rows[i].service_id = sid})
        count(sid) == RuleCount(rows[lastRow(sid)],
                                parse_gtfs_date(rows[lastRow(sid)].start_date),
                                parse_gtfs_date(rows[lastRow(sid)].end_date),
                                exceptions)
        sids == {sid \in {rows[i].service_id : i \in usable} : count(sid) > 0}
    IN  [sid \in sids |-> count(sid)]

\* service_days_count after the loop over calendar.txt (lines 150-170)
CalendarCounts(calendar_df, exceptions) ==
    LET rows == calendar_df.rows
        usable == {i \in 1..Len(rows) :
                      /\ parse_gtfs_date(rows[i].start_date) # None
                      /\ parse_gtfs_date(rows[i].end_date) # None}
        sids == {rows[i].service_id : i \in usable}
        lastRow(sid) == SetMax({i \in usable : rows[i].service_id = sid})
    IN  [sid \in sids |->
            RuleCount(rows[lastRow(sid)],
                      parse_gtfs_date(rows[lastRow(sid)].start_date),
                      parse_gtfs_date(rows[lastRow(sid)].end_date),
                      exceptions)]

\* the count of a service that has only calendar_dates rows (line 175)
AddedCountAllTypes(exc_dates) == Cardinality(DOMAIN exc_dates)

AddedCount(exc_dates) == Cardinality({d \in DOMAIN exc_dates : exc_dates[d] = 1})

\* total_days (line 133)
TotalDaysNoPlusOne(min_date, max_date) == max_date - min_date

TotalDaysReversed(min_date, max_date) == (min_date - max_date) + 1

TotalDays(min_date, max_date) == (max_date - min_date) + 1

get_service_active_days(calendar_df, calendar_dates_df) ==
    LET dates_sources == DatesSources(calendar_df, calendar_dates_df)
    IN  IF dates_sources = {}
        THEN [service_days_count |-> <<>>, total_days |-> 1, error |-> TRUE,
              min_date |-> None, max_date |-> None]
        ELSE LET min_date == SetMin(dates_sources)
                 max_date == SetMax(dates_sources)
                 exceptions == ExceptionsDict(calendar_dates_df)
                 fromCal == CalendarCounts(calendar_df, exceptions)
                 onlyExc == DOMAIN exceptions \ DOMAIN fromCal
             IN  [service_days_count |->
                      [sid \in DOMAIN fromCal \cup onlyExc |->
                          IF sid \in DOMAIN fromCal THEN fromCal[sid]
                          ELSE AddedCount(exceptions[sid])],
                  total_days |-> TotalDays(min_date, max_date),
                  error |-> FALSE,
                  min_date |-> min_date, max_date |-> max_date]

----------------------------------------------------------------------------
(* Exact rationals for total_events / total_feed_days and their sums *)

RECURSIVE GCD(_, _)
GCD(a, b) == IF b = 0 THEN a ELSE GCD(b, a % b)

Rat(n, d) == LET g == GCD(n, d) IN [num |-> n \div g, den |-> d \div g]
Zero == [num |-> 0, den |-> 1]
RatAdd(a, b) == Rat(a.num * b.den + b.num * a.den, a.den * b.den)

RECURSIVE SumFn(_, _)
SumFn(f, S) ==
    IF S = {} THEN 0
    ELSE LET x == CHOOSE x \in S : TRUE IN f[x] + SumFn(f, S \ {x})

RECURSIVE RatSumFn(_, _)
RatSumFn(f, S) ==
    IF S = {} THEN Zero
    ELSE LET x == CHOOSE x \in S : TRUE IN RatAdd(f[x], RatSumFn(f, S \ {x}))

RECURSIVE SortedSeq(_)
SortedSeq(S) ==
    IF S = {} THEN <<>>
    ELSE LET m == SetMin(S) IN <<m>> \o SortedSeq(S \ {m})

----------------------------------------------------------------------------
(* process_feed *)

\* pd.DataFrame(): the empty table returned on a failed feed
EmptyDataFrame == <<>>

\* trips['service_id'].map(service_day_counts).fillna(0) (line 231)
TripActiveDaysFillOne(trip, service_day_counts) ==
    IF trip.service_id \in DOMAIN service_day_counts
    THEN service_day_counts[trip.service_id]
    ELSE 1

TripActiveDays(trip, service_day_counts) ==
    IF trip.service_id \in DOMAIN service_day_counts
    THEN service_day_counts[trip.service_id]
    ELSE 0

\* left merge of stop_times with trips on trip_id, then groupby('stop_id').sum():
\* a stop_times row pairs with every trips row of its trip_id; a row without a
\* match carries NaN, which the sum skips (lines 234-241)
StopEventPairs(stop_times, trips, stop_id) ==
    {p \in (1..Len(stop_times)) \X (1..Len(trips)) :
        /\ stop_times[p[1]].stop_id = stop_id
        /\ trips[p[2]].trip_id = stop_times[p[1]].trip_id}

TotalEventsOncePerTrip(stop_times, trips, service_day_counts, stop_id) ==
    LET visiting == {j \in 1..Len(trips) :
                        \E i \in 1..Len(stop_times) :
                            /\ stop_times[i].stop_id = stop_id
                            /\ stop_times[i].trip_id = trips[j].trip_id}
    IN  SumFn([j \in visiting |-> TripActiveDays(trips[j], service_day_counts)], visiting)

TotalEvents(stop_times, trips, service_day_counts, stop_id) ==
    LET pairs == StopEventPairs(stop_times, trips, stop_id)
    IN  SumFn([p \in pairs |-> TripActiveDays(trips[p[2]], service_day_counts)], pairs)

\* stop_total after the filter avg_daily_freq > 0 (lines 240-245):
\* a dictionary stop_id -> avg_daily_freq
StopTotalUnfiltered(stop_times, trips, service_day_counts, total_feed_days) ==
    LET ids == {stop_times[i].stop_id : i \in 1..Len(stop_times)}
    IN  [s \in ids |->
            Rat(TotalEvents(stop_times, trips, service_day_counts, s), total_feed_days)]

StopTotalNonNegative(stop_times, trips, service_day_counts, total_feed_days) ==
    LET ids == {stop_times[i].stop_id : i \in 1..Len(stop_times)}
        active == {s \in ids :
                      Rat(TotalEvents(stop_times, trips, service_day_counts, s),
                          total_feed_days).num >= 0}
    IN  [s \in active |->
            Rat(TotalEvents(stop_times, trips, service_day_counts, s), total_feed_days)]

StopTotal(stop_times, trips, service_day_counts, total_feed_days) ==
    LET ids == {stop_times[i].stop_id : i \in 1..Len(stop_times)}
        active == {s \in ids :
                      Rat(TotalEvents(stop_times, trips, service_day_counts, s),
                          total_feed_days).num > 0}
    IN  [s \in active |->
            Rat(TotalEvents(stop_times, trips, service_day_counts, s), total_feed_days)]

\* inner merge of stops with stop_total on stop_id (line 254): the rows of
\* stops.txt whose stop_id has a positive frequency
StopsGdf(stops, stop_total) ==
    {i \in 1..Len(stops) : stops[i].stop_id \in DOMAIN stop_total}

\* squared planar distance from a point to a rectangle (0 inside and on the border)
Dist2(stop, area) ==
    LET dx == IF stop.x < area.x0 THEN area.x0 - stop.x
              ELSE IF stop.x > area.x1 THEN stop.x - area.x1 ELSE 0
        dy == IF stop.y < area.y0 THEN area.y0 - stop.y
              ELSE IF stop.y > area.y1 THEN stop.y - area.y1 ELSE 0
    IN  dx * dx + dy * dy

SjoinContaining(stops, rows, areas) ==
    {p \in rows \X (1..Len(areas)) : Dist2(stops[p[1]], areas[p[2]]) = 0}

\* gpd.sjoin_nearest(..., how="inner"): one output row per (stop row, area row)
\* such that the area is at minimum distance from the stop; equidistant areas
\* each yield a row (line 262)
SjoinNearest(stops, rows, areas) ==
    {p \in rows \X (1..Len(areas)) :
        \A l \in 1..Len(areas) : Dist2(stops[p[1]], areas[p[2]]) <= Dist2(stops[p[1]], areas[l])}

\* joined.groupby("BGRI2021").agg(sum, count).reset_index() (lines 265-268)
AggregateFirst(stops, stop_total, areas, joined) ==
    LET ids == {areas[p[2]].BGRI2021 : p \in joined}
        rowsOf(a) == {p \in joined : areas[p[2]].BGRI2021 = a}
        order == SortedSeq(ids)
        first(a) == CHOOSE p \in rowsOf(a) : \A q \in rowsOf(a) : p[1] <= q[1]
    IN  [k \in 1..Len(order) |->
            [BGRI2021 |-> order[k],
             transit_density |-> stop_total[stops[first(order[k])[1]].stop_id],
             stop_count |-> 1]]

Aggregate(stops, stop_total, areas, joined) ==
    LET ids == {areas[p[2]].BGRI2021 : p \in joined}
        rowsOf(a) == {p \in joined : areas[p[2]].BGRI2021 = a}
        order == SortedSeq(ids)
    IN  [k \in 1..Len(order) |->
            [BGRI2021 |-> order[k],
             transit_density |->
                 RatSumFn([p \in rowsOf(order[k]) |-> stop_total[stops[p[1]].stop_id]],
                          rowsOf(order[k])),
             stop_count |-> Cardinality(rowsOf(order[k]))]]

\* The outcome of process_feed: what it returns, or that it raised.
\* feed.defect = "csv": a required CSV is missing or unreadable (caught, line 220);
\* feed.defect = "calendar_column": calendar.txt has rows but no start_date
\* column, so line 117 raises KeyError outside any try block.
process_feed(feed_data, areas) ==
    IF feed_data.defect = "csv"
    THEN [raised |-> FALSE, stop_total |-> <<>>, joined |-> {},
          agg |-> EmptyDataFrame, note |-> "Error loading GTFS CSVs"]
    ELSE IF /\ feed_data.defect = "calendar_column"
            /\ feed_data.calendar.present /\ feed_data.calendar.rows # <<>>
    THEN [raised |-> TRUE, stop_total |-> <<>>, joined |-> {},
          agg |-> EmptyDataFrame, note |-> "KeyError"]
    ELSE LET gsad == get_service_active_days(feed_data.calendar, feed_data.calendar_dates)
         IN  IF gsad.total_days <= 0
             THEN [raised |-> FALSE, stop_total |-> <<>>, joined |-> {},
                   agg |-> EmptyDataFrame, note |-> "Invalid feed duration"]
             ELSE LET stop_total == StopTotal(feed_data.stop_times, feed_data.trips,
                                              gsad.service_days_count, gsad.total_days)
                      rows == StopsGdf(feed_data.stops, stop_total)
                      joined == SjoinNearest(feed_data.stops, rows, areas)
                  IN  [raised |-> FALSE,
                       stop_total |-> stop_total,
                       joined |-> joined,
                       agg |-> Aggregate(feed_data.stops, stop_total, areas, joined),
                       note |-> IF gsad.error THEN "No valid date information found"
                                ELSE "ok"]

----------------------------------------------------------------------------
(* Inputs of the calendar resolver *)

Services == {"A", "B"}

\* the valid days (the last one written with a fractional suffix) and two cells
\* that do not parse: day 00 and day 32 of January 2024
DateCells ==
    {[digits |-> FirstDay + k, frac |-> FALSE] : k \in 0..(NumDays - 2)}
    \cup {[digits |-> FirstDay + NumDays - 1, frac |-> TRUE]}
    \cup {[digits |-> 20240100, frac |-> FALSE], [digits |-> 20240132, frac |-> FALSE]}

\* weekday flags, Monday first
WeekPatterns == {<<1, 0, 1, 0, 1, 0, 1>>}

RuleRows == [service_id : Services, start_date : DateCells, end_date : DateCells,
             days : WeekPatterns]

ExceptionRows == [service_id : Services, date : DateCells, exception_type : {1, 2}]

Calendars ==
    {CalendarNone} \cup {[present |-> TRUE, rows |-> r] : r \in SeqsUpTo(RuleRows, MaxRules)}

ExceptionTables == SeqsUpTo(ExceptionRows, MaxExceptions)

Day(n) == [digits |-> n, frac |-> FALSE]

FeedOf(cal, exc) ==
    [defect |-> "none", stops |-> <<>>, trips |-> <<>>, stop_times |-> <<>>,
     calendar |-> cal, calendar_dates |-> exc]

\* a Monday-to-Friday rule over the week 2024-01-01..2024-01-07 with Wednesday removed
ScenarioMonFri ==
    FeedOf([present |-> TRUE,
            rows |-> <<[service_id |-> "A", start_date |-> Day(20240101),
                        end_date |-> Day(20240107), days |-> <<1, 1, 1, 1, 1, 0, 0>>]>>],
           <<[service_id |-> "A", date |-> Day(20240103), exception_type |-> 2]>>)

\* a one-week rule with every weekday flag set and no exception
ScenarioFullWeek ==
    FeedOf([present |-> TRUE,
            rows |-> <<[service_id |-> "A", start_date |-> Day(20240101),
                        end_date |-> Day(20240107), days |-> <<1, 1, 1, 1, 1, 1, 1>>]>>],
           <<>>)

\* service B has no rule, two Added exceptions and a Removed one
ScenarioExceptionsOnly ==
    FeedOf(CalendarNone,
           <<[service_id |-> "B", date |-> Day(20240101), exception_type |-> 1],
             [service_id |-> "B", date |-> Day(20240102), exception_type |-> 2],
             [service_id |-> "B", date |-> Day(20240105), exception_type |-> 1]>>)

\* two rules, the second with its end_date before every start_date
ScenarioInvertedRule ==
    FeedOf([present |-> TRUE,
            rows |-> <<[service_id |-> "A", start_date |-> Day(20240103),
                        end_date |-> Day(20240105), days |-> <<1, 1, 1, 1, 1, 1, 1>>],
                       [service_id |-> "B", start_date |-> Day(20240104),
                        end_date |-> Day(20240101), days |-> <<1, 1, 1, 1, 1, 1, 1>>]>>],
           <<>>)

\* two rules: one over 2024-01-01..2024-01-02, one whose start_date (day 00) and
\* end_date (day 32) do not parse and are the numeric extremes of their columns
ScenarioUnparseableExtremes ==
    FeedOf([present |-> TRUE,
            rows |-> <<[service_id |-> "A", start_date |-> Day(20240101),
                        end_date |-> Day(20240102), days |-> <<1, 1, 1, 1, 1, 1, 1>>],
                       [service_id |-> "B", start_date |-> Day(20240100),
                        end_date |-> Day(20240132), days |-> <<1, 1, 1, 1, 1, 1, 1>>]>>],
           <<>>)

CalendarScenarios ==
    {ScenarioMonFri, ScenarioFullWeek, ScenarioExceptionsOnly, ScenarioInvertedRule,
     ScenarioUnparseableExtremes}

NoResult == [raised |-> FALSE, note |-> "none"]

\* nothing has been written to OUTPUT_GEOJSON
NoOutput == [written |-> FALSE, rows |-> <<>>]

----------------------------------------------------------------------------
(* The calendar resolver applied to every generated calendar *)

InitCalendar ==
    /\ pc = "calendar"
    /\ \/ \E c \in Calendars, e \in ExceptionTables : feed = FeedOf(c, e)
       \/ feed \in CalendarScenarios
    /\ out = NoResult
    /\ areas_present = FALSE
    /\ areas_gdf = <<>>
    /\ idx = 0
    /\ fs = <<>>
    /\ results = <<>>
    /\ final_gdf = NoOutput
    /\ log = <<>>

ResolveCalendar ==
    /\ pc = "calendar"
    /\ out' = get_service_active_days(feed.calendar, feed.calendar_dates)
    /\ pc' = "resolved"
    /\ UNCHANGED <<areas_present, areas_gdf, idx, fs, feed, results, final_gdf, log>>

NextCalendar == ResolveCalendar

SpecCalendar == InitCalendar /\ [][NextCalendar]_vars

----------------------------------------------------------------------------
(* Properties of the calendar resolver and the feed window *)

\* the active_days a trip of service sid receives (the .map(...).fillna(0) of line 231)
ActiveDaysOf(result, sid) ==
    IF sid \in DOMAIN result.service_days_count THEN result.service_days_count[sid] ELSE 0

RuleRowsOf(f, sid) ==
    {i \in 1..Len(f.calendar.rows) : f.calendar.rows[i].service_id = sid}

ExcRowsOf(f, sid) ==
    {i \in 1..Len(f.calendar_dates) : f.calendar_dates[i].service_id = sid}

\* a date appears at most once per service in calendar_dates.txt
UniqueExceptionDates(f, sid) ==
    \A i, j \in ExcRowsOf(f, sid) :
        i # j => f.calendar_dates[i].date.digits # f.calendar_dates[j].date.digits

HasException(f, sid, d, kind) ==
    \E i \in ExcRowsOf(f, sid) :
        /\ parse_gtfs_date(f.calendar_dates[i].date) = d
        /\ f.calendar_dates[i].exception_type = kind

ResolvedActive(f, sid, row, d) ==
    IF HasException(f, sid, d, 1) THEN TRUE
    ELSE IF HasException(f, sid, d, 2) THEN FALSE
    ELSE row.days[Weekday(d) + 1] = 1

\* C5: in a feed whose window could be derived, a service with one calendar rule
\* (both dates parse, no date listed twice among its exceptions) has active_days
\* equal to the number of dates of start_date..end_date, both inclusive, whose
\* resolved state is active: Added forces active, Removed forces inactive,
\* otherwise the Monday-first weekday flag decides.  The Monday-to-Friday week
\* with Wednesday removed gives 4, the full week without exceptions gives 7.
C5_RuleActiveDays ==
    (pc = "resolved" /\ ~out.error) =>
        /\ \A sid \in Services :
              LET R == RuleRowsOf(feed, sid) IN
              (/\ Cardinality(R) = 1
               /\ UniqueExceptionDates(feed, sid)
               /\ \A i \in R : /\ parse_gtfs_date(feed.calendar.rows[i].start_date) # None
                               /\ parse_gtfs_date(feed.calendar.rows[i].end_date) # None)
              => \A i \in R :
                    LET row == feed.calendar.rows[i]
                        start == parse_gtfs_date(row.start_date)
                        end == parse_gtfs_date(row.end_date)
                    IN  ActiveDaysOf(out, sid) =
                            Cardinality({d \in start..end : ResolvedActive(feed, sid, row, d)})
        /\ feed = ScenarioMonFri => ActiveDaysOf(out, "A") = 4
        /\ feed = ScenarioFullWeek => ActiveDaysOf(out, "A") = 7

C5_Witness ==
    /\ pc = "resolved"
    /\ feed = ScenarioMonFri
    /\ ~out.error
    /\ ActiveDaysOf(out, "A") = 4

\* C6: in a feed whose window could be derived, a service without any calendar
\* rule (no date listed twice among its exceptions) has active_days equal to
\* the number of its Added exceptions; its Removed exceptions add nothing.
C6_ExceptionOnlyActiveDays ==
    (pc = "resolved" /\ ~out.error) =>
        \A sid \in Services :
            (RuleRowsOf(feed, sid) = {} /\ UniqueExceptionDates(feed, sid))
            => ActiveDaysOf(out, sid) =
                   Cardinality({i \in ExcRowsOf(feed, sid) :
                                   /\ parse_gtfs_date(feed.calendar_dates[i].date) # None
                                   /\ feed.calendar_dates[i].exception_type = 1})

C6_Witness ==
    /\ pc = "resolved"
    /\ ~out.error
    /\ RuleRowsOf(feed, "B") = {}
    /\ UniqueExceptionDates(feed, "B")
    /\ \E i, j \in ExcRowsOf(feed, "B") :
          /\ feed.calendar_dates[i].exception_type = 1
          /\ feed.calendar_dates[j].exception_type = 2
          /\ parse_gtfs_date(feed.calendar_dates[i].date) # None
          /\ parse_gtfs_date(feed.calendar_dates[j].date) # None
    /\ ActiveDaysOf(out, "B") = 2

StartOrds(f) ==
    {parse_gtfs_date(f.calendar.rows[i].start_date) : i \in 1..Len(f.calendar.rows)}
EndOrds(f) ==
    {parse_gtfs_date(f.calendar.rows[i].end_date) : i \in 1..Len(f.calendar.rows)}
ExcOrds(f) ==
    {parse_gtfs_date(f.calendar_dates[i].date) : i \in 1..Len(f.calendar_dates)}

AllDatesParse(f) == None \notin (StartOrds(f) \cup EndOrds(f) \cup ExcOrds(f))
HasDates(f) == f.calendar.rows # <<>> \/ f.calendar_dates # <<>>

WindowIs(result, D) ==
    /\ ~result.error
    /\ result.min_date = SetMin(D)
    /\ result.max_date = SetMax(D)
    /\ result.total_days = (SetMax(D) - SetMin(D)) + 1

\* C7 as stated: the window of a feed with at least one rule or exception (all
\* dates parse) runs from the minimum to the maximum over all rule start_dates,
\* all rule end_dates and all exception dates.
C7_WindowOverAllDates ==
    (pc = "resolved" /\ HasDates(feed) /\ AllDatesParse(feed)) =>
        WindowIs(out, StartOrds(feed) \cup EndOrds(feed) \cup ExcOrds(feed))

\* C7 as amended: the window runs from the minimum to the maximum over the
\* smallest rule start_date, the largest rule end_date and all exception dates,
\* and window_days is the difference in days plus 1.  This is the minimum and
\* maximum over all dates whenever every rule has start_date <= end_date, and a
\* feed with only exceptions spans its earliest to its latest exception date.
C7_WindowOfColumnExtremes ==
    (pc = "resolved" /\ HasDates(feed) /\ AllDatesParse(feed)) =>
        LET fromRules == IF feed.calendar.rows # <<>>
                         THEN {SetMin(StartOrds(feed)), SetMax(EndOrds(feed))}
                         ELSE {}
            wellFormed == \A i \in 1..Len(feed.calendar.rows) :
                              parse_gtfs_date(feed.calendar.rows[i].start_date)
                                  <= parse_gtfs_date(feed.calendar.rows[i].end_date)
        IN  /\ WindowIs(out, fromRules \cup ExcOrds(feed))
            /\ wellFormed =>
                   WindowIs(out, StartOrds(feed) \cup EndOrds(feed) \cup ExcOrds(feed))
            /\ feed.calendar.rows = <<>> => WindowIs(out, ExcOrds(feed))

C7_Witness ==
    /\ pc = "resolved"
    /\ feed.calendar.rows = <<>>
    /\ AllDatesParse(feed)
    /\ Cardinality(ExcOrds(feed)) = 3
    /\ out.total_days = 5
    /\ out.min_date = SetMin(ExcOrds(feed))
    /\ out.max_date = SetMax(ExcOrds(feed))

\* feed f without the rules and exceptions that carry an unparseable date
OmitUnparseable(f) ==
    [f EXCEPT
        !.calendar.rows = SelectSeq(f.calendar.rows, LAMBDA r :
                              /\ parse_gtfs_date(r.start_date) # None
                              /\ parse_gtfs_date(r.end_date) # None),
        !.calendar_dates = SelectSeq(f.calendar_dates, LAMBDA r :
                               parse_gtfs_date(r.date) # None)]

AllCells(f) ==
    {f.calendar.rows[i].start_date : i \in 1..Len(f.calendar.rows)}
    \cup {f.calendar.rows[i].end_date : i \in 1..Len(f.calendar.rows)}
    \cup {f.calendar_dates[i].date : i \in 1..Len(f.calendar_dates)}

\* C13: unparseable dates are treated as absent.  Every service has the
\* active_days it has when the rows carrying an unparseable date are omitted;
\* the window runs from the minimum to the maximum over the dates that parse
\* (taken, as in C7, over the smallest start_date that parses, the largest
\* end_date that parses and the exception dates that parse); and a date cell
\* with a trailing fractional suffix parses as the date before the suffix.
C13_UnparseableAsAbsent ==
    pc = "resolved" =>
        LET clean == get_service_active_days(OmitUnparseable(feed).calendar,
                                             OmitUnparseable(feed).calendar_dates)
            S == StartOrds(feed) \ {None}
            E == EndOrds(feed) \ {None}
            D == (IF S = {} THEN {} ELSE {SetMin(S)})
                 \cup (IF E = {} THEN {} ELSE {SetMax(E)})
                 \cup (ExcOrds(feed) \ {None})
        IN  /\ \A sid \in Services : ActiveDaysOf(out, sid) = ActiveDaysOf(clean, sid)
            /\ D # {} => WindowIs(out, D)
            /\ \A c \in AllCells(feed) :
                  c.frac => parse_gtfs_date(c) = parse_gtfs_date(Day(c.digits))

RemoveAt(seq, k) == SubSeq(seq, 1, k - 1) \o SubSeq(seq, k + 1, Len(seq))

\* the exception rows of service sid whose date parses and lies outside start..end
OutsideExceptions(sid, start, end) ==
    {e \in ExceptionRows :
        /\ e.service_id = sid
        /\ parse_gtfs_date(e.date) # None
        /\ (parse_gtfs_date(e.date) < start \/ parse_gtfs_date(e.date) > end)}

\* C14: for a service with one calendar rule (both dates parse), in feeds whose
\* window can be derived, an exception of the service dated outside
\* start_date..end_date does not affect active_days: the count is the same
\* when that exception is removed (so also when it is added) and when it is
\* changed into any other exception of the service dated outside the range.
C14_OutsideExceptionsIgnored ==
    (pc = "resolved" /\ ~out.error) =>
        \A sid \in Services :
            \A i \in RuleRowsOf(feed, sid) :
                LET row == feed.calendar.rows[i]
                    start == parse_gtfs_date(row.start_date)
                    end == parse_gtfs_date(row.end_date)
                IN  (Cardinality(RuleRowsOf(feed, sid)) = 1 /\ start # None /\ end # None) =>
                    \A k \in ExcRowsOf(feed, sid) :
                        feed.calendar_dates[k] \in OutsideExceptions(sid, start, end) =>
                            /\ LET without == get_service_active_days(feed.calendar,
                                                  RemoveAt(feed.calendar_dates, k))
                               IN  ~without.error =>
                                       ActiveDaysOf(without, sid) = ActiveDaysOf(out, sid)
                            /\ \A e \in OutsideExceptions(sid, start, end) :
                                  LET changed == get_service_active_days(feed.calendar,
                                                     [feed.calendar_dates EXCEPT ![k] = e])
                                  IN  ~changed.error =>
                                          ActiveDaysOf(changed, sid) = ActiveDaysOf(out, sid)

C14_Witness ==
    /\ pc = "resolved"
    /\ ~out.error
    /\ Cardinality(RuleRowsOf(feed, "A")) = 1
    /\ \E i \in RuleRowsOf(feed, "A") :
          /\ parse_gtfs_date(feed.calendar.rows[i].start_date) = parse_gtfs_date(Day(FirstDay))
          /\ parse_gtfs_date(feed.calendar.rows[i].end_date) = parse_gtfs_date(Day(FirstDay))
          /\ \E k \in ExcRowsOf(feed, "A") :
                /\ feed.calendar_dates[k].exception_type = 1
                /\ parse_gtfs_date(feed.calendar_dates[k].date) # None
                /\ parse_gtfs_date(feed.calendar_dates[k].date)
                       > parse_gtfs_date(feed.calendar.rows[i].end_date)
          /\ ActiveDaysOf(out, "A") =
                 feed.calendar.rows[i].days[Weekday(parse_gtfs_date(Day(FirstDay))) + 1]

\* C20: window_days does not depend on the order of the rows: for every
\* ordering of the rows of calendar.txt and every ordering of the rows of
\* calendar_dates.txt the feed has the same window_days.
C20_WindowDaysOrderInvariant ==
    pc = "resolved" =>
        \A rules \in Orderings(feed.calendar.rows) :
            \A excs \in Orderings(feed.calendar_dates) :
                get_service_active_days([feed.calendar EXCEPT !.rows = rules], excs).total_days
                    = out.total_days

C20_Witness ==
    /\ pc = "resolved"
    /\ feed = ScenarioExceptionsOnly
    /\ Cardinality(Orderings(feed.calendar_dates)) = 6
    /\ out.total_days = 5
    /\ \A excs \in Orderings(feed.calendar_dates) :
          get_service_active_days(feed.calendar, excs).total_days = 5

\* C25: get_service_active_days returns total_days >= 1 for every input: 1
\* when no date is usable, otherwise max_date - min_date + 1 with
\* min_date <= max_date; so process_feed never takes its branch for
\* total_feed_days <= 0 and never reports an invalid feed duration.
C25_TotalDaysAtLeastOne ==
    pc = "resolved" =>
        /\ out.total_days >= 1
        /\ out.error <=> DatesSources(feed.calendar, feed.calendar_dates) = {}
        /\ out.error => out.total_days = 1
        /\ ~out.error =>
              /\ out.min_date <= out.max_date
              /\ out.total_days = (out.max_date - out.min_date) + 1
        /\ process_feed(feed, <<>>).note # "Invalid feed duration"

C25_Witness ==
    /\ pc = "resolved"
    /\ feed.calendar.rows # <<>>
    /\ out.error
    /\ out.total_days = 1
    /\ process_feed(feed, <<>>).note = "No valid date information found"

\* the calendar rows of service sid whose start_date and end_date both parse
UsableRuleRowsOf(f, sid) ==
    {i \in RuleRowsOf(f, sid) :
        /\ parse_gtfs_date(f.calendar.rows[i].start_date) # None
        /\ parse_gtfs_date(f.calendar.rows[i].end_date) # None}

\* the parseable Added exceptions of service sid
AddedRowsOf(f, sid) ==
    {k \in ExcRowsOf(f, sid) :
        /\ f.calendar_dates[k].exception_type = 1
        /\ parse_gtfs_date(f.calendar_dates[k].date) # None}

\* C29: a service whose (last usable) calendar rule has start_date later than
\* end_date gets active_days = 0 whatever Added exceptions it has; for any
\* service with a usable rule the count never exceeds the number of dates of
\* the rule's range, so Added exceptions are neither added to nor substituted
\* for the rule's count; a service without a usable rule gets at most the
\* number of its Added exception rows.
C29_InvertedRuleCountsZero ==
    pc = "resolved" =>
        \A sid \in Services :
            IF UsableRuleRowsOf(feed, sid) # {}
            THEN LET row == feed.calendar.rows[SetMax(UsableRuleRowsOf(feed, sid))]
                     start == parse_gtfs_date(row.start_date)
                     end == parse_gtfs_date(row.end_date)
                 IN  /\ start > end => ActiveDaysOf(out, sid) = 0
                     /\ ~out.error => sid \in DOMAIN out.service_days_count
                     /\ ActiveDaysOf(out, sid) <= (IF start > end THEN 0 ELSE (end - start) + 1)
            ELSE ActiveDaysOf(out, sid) <= Cardinality(AddedRowsOf(feed, sid))

C29_Witness ==
    /\ pc = "resolved"
    /\ ~out.error
    /\ \E sid \in Services :
           /\ Cardinality(RuleRowsOf(feed, sid)) = 1
           /\ UsableRuleRowsOf(feed, sid) # {}
           /\ LET row == feed.calendar.rows[SetMax(UsableRuleRowsOf(feed, sid))]
              IN  parse_gtfs_date(row.start_date) > parse_gtfs_date(row.end_date)
           /\ AddedRowsOf(feed, sid) # {}
           /\ sid \in DOMAIN out.service_days_count
           /\ out.service_days_count[sid] = 0

----------------------------------------------------------------------------
(* Inputs of the per-feed pipeline *)

StopIds == {"p", "q"}
TripIds == {"t1", "t2"}

\* "t9" is a trip_id that trips.txt never lists
TripRows == [trip_id : TripIds, service_id : Services]
StopTimeRows == [stop_id : StopIds, trip_id : TripIds \cup {"t9"}]

\* three areas in the projected plane: 7 and 9 share the border x = 2,
\* 11 lies apart from both
Area7 == [BGRI2021 |-> 7, x0 |-> 0, y0 |-> 0, x1 |-> 2, y1 |-> 2]
Area9 == [BGRI2021 |-> 9, x0 |-> 2, y0 |-> 0, x1 |-> 4, y1 |-> 2]
Area11 == [BGRI2021 |-> 11, x0 |-> 6, y0 |-> 0, x1 |-> 8, y1 |-> 2]

AreaLayouts == {<<>>, <<Area7>>, <<Area7, Area9>>, <<Area7, Area9, Area11>>}

\* stop positions: inside area 7, on the border of 7 and 9, outside every area
StopPoints == {<<1, 1>>, <<2, 1>>, <<5, 3>>}

StopRows == {[stop_id |-> s, x |-> pt[1], y |-> pt[2]] : s \in StopIds, pt \in StopPoints}

AllWeek == <<1, 1, 1, 1, 1, 1, 1>>

\* calendars of the generated feeds: none at all; A by rule and B by an Added
\* exception (window of 2 days); A by rule only (window of 3 days)
FeedCalendars ==
    {[calendar |-> CalendarNone, calendar_dates |-> <<>>],
     [calendar |-> [present |-> TRUE,
                    rows |-> <<[service_id |-> "A", start_date |-> Day(20240101),
                                end_date |-> Day(20240102), days |-> AllWeek]>>],
      calendar_dates |-> <<[service_id |-> "B", date |-> Day(20240101),
                            exception_type |-> 1]>>],
     [calendar |-> [present |-> TRUE,
                    rows |-> <<[service_id |-> "A", start_date |-> Day(20240101),
                                end_date |-> Day(20240103),
                                days |-> <<1, 0, 1, 0, 1, 0, 1>>]>>],
      calendar_dates |-> <<>>]}

\* one stop visited by two trips with active_days 4 and 6 in a window of 10 days
ScenarioTwoTrips ==
    [defect |-> "none",
     stops |-> <<[stop_id |-> "p", x |-> 1, y |-> 1]>>,
     trips |-> <<[trip_id |-> "t1", service_id |-> "A"],
                 [trip_id |-> "t2", service_id |-> "B"]>>,
     stop_times |-> <<[stop_id |-> "p", trip_id |-> "t1"],
                      [stop_id |-> "p", trip_id |-> "t2"]>>,
     calendar |-> [present |-> TRUE,
                   rows |-> <<[service_id |-> "A", start_date |-> Day(20240101),
                               end_date |-> Day(20240110),
                               days |-> <<1, 1, 0, 0, 0, 0, 0>>],
                              [service_id |-> "B", start_date |-> Day(20240101),
                               end_date |-> Day(20240110),
                               days |-> <<1, 1, 1, 0, 0, 0, 0>>]>>],
     calendar_dates |-> <<>>]

\* trip t1 visits stop p twice; stop q is visited by a trip that trips.txt does
\* not list and by a trip whose service has no calendar data
ScenarioLoop ==
    [defect |-> "none",
     stops |-> <<[stop_id |-> "p", x |-> 1, y |-> 1], [stop_id |-> "q", x |-> 3, y |-> 1]>>,
     trips |-> <<[trip_id |-> "t1", service_id |-> "A"],
                 [trip_id |-> "t2", service_id |-> "B"]>>,
     stop_times |-> <<[stop_id |-> "p", trip_id |-> "t1"],
                      [stop_id |-> "q", trip_id |-> "t9"],
                      [stop_id |-> "p", trip_id |-> "t1"],
                      [stop_id |-> "q", trip_id |-> "t2"]>>,
     calendar |-> [present |-> TRUE,
                   rows |-> <<[service_id |-> "A", start_date |-> Day(20240101),
                               end_date |-> Day(20240103),
                               days |-> <<1, 0, 1, 0, 1, 0, 1>>]>>],
     calendar_dates |-> <<>>]

\* stops p and q lie in area 7 and stop r in area 9; trip t1, active on 2 of the
\* 3 days of the window, visits p once, q twice and r once
ScenarioSharedArea ==
    [defect |-> "none",
     stops |-> <<[stop_id |-> "p", x |-> 1, y |-> 1], [stop_id |-> "q", x |-> 0, y |-> 1],
                 [stop_id |-> "r", x |-> 3, y |-> 1]>>,
     trips |-> <<[trip_id |-> "t1", service_id |-> "A"]>>,
     stop_times |-> <<[stop_id |-> "p", trip_id |-> "t1"], [stop_id |-> "q", trip_id |-> "t1"],
                      [stop_id |-> "r", trip_id |-> "t1"], [stop_id |-> "q", trip_id |-> "t1"]>>,
     calendar |-> [present |-> TRUE,
                   rows |-> <<[service_id |-> "A", start_date |-> Day(20240101),
                               end_date |-> Day(20240103),
                               days |-> <<1, 0, 1, 0, 1, 0, 1>>]>>],
     calendar_dates |-> <<>>]

\* service B runs on its three Added dates, which span the whole 3-day window,
\* service A on one Added date; trip t2 (B) visits stop p twice, trip t1 (A) once
ScenarioEveryDay ==
    [defect |-> "none",
     stops |-> <<[stop_id |-> "p", x |-> 1, y |-> 1]>>,
     trips |-> <<[trip_id |-> "t1", service_id |-> "A"],
                 [trip_id |-> "t2", service_id |-> "B"]>>,
     stop_times |-> <<[stop_id |-> "p", trip_id |-> "t2"], [stop_id |-> "p", trip_id |-> "t1"],
                      [stop_id |-> "p", trip_id |-> "t2"]>>,
     calendar |-> CalendarNone,
     calendar_dates |-> <<[service_id |-> "B", date |-> Day(20240101), exception_type |-> 1],
                          [service_id |-> "B", date |-> Day(20240102), exception_type |-> 1],
                          [service_id |-> "A", date |-> Day(20240102), exception_type |-> 1],
                          [service_id |-> "B", date |-> Day(20240103), exception_type |-> 1]>>]

FeedScenarios == {ScenarioTwoTrips, ScenarioLoop, ScenarioSharedArea, ScenarioEveryDay}

----------------------------------------------------------------------------
(* process_feed applied to every generated feed and area layout *)

InitFeed ==
    /\ pc = "feed"
    /\ \/ \E k \in FeedCalendars, st \in SeqsUpTo(StopRows, MaxStops),
             tr \in SeqsUpTo(TripRows, MaxTrips),
             sx \in SeqsUpTo(StopTimeRows, MaxStopTimes) :
               feed = [defect |-> "none", stops |-> st, trips |-> tr, stop_times |-> sx,
                       calendar |-> k.calendar, calendar_dates |-> k.calendar_dates]
       \/ feed \in FeedScenarios
    /\ areas_gdf \in AreaLayouts
    /\ out = NoResult
    /\ areas_present = TRUE
    /\ idx = 0
    /\ fs = <<>>
    /\ results = <<>>
    /\ final_gdf = NoOutput
    /\ log = <<>>

ProcessOneFeed ==
    /\ pc = "feed"
    /\ out' = process_feed(feed, areas_gdf)
    /\ pc' = "processed"
    /\ UNCHANGED <<areas_present, areas_gdf, idx, fs, feed, results, final_gdf, log>>

NextFeed == ProcessOneFeed

SpecFeed == InitFeed /\ [][NextFeed]_vars

----------------------------------------------------------------------------
(* Properties of the per-feed pipeline *)

UniqueTripIds(f) ==
    \A i, j \in 1..Len(f.trips) : i # j => f.trips[i].trip_id # f.trips[j].trip_id

UniqueStopIds(f) ==
    \A i, j \in 1..Len(f.stops) : i # j => f.stops[i].stop_id # f.stops[j].stop_id

StopTimeStops(f) == {f.stop_times[i].stop_id : i \in 1..Len(f.stop_times)}

\* every stop_id of stop_times.txt is listed in stops.txt
StopsResolve(f) == StopTimeStops(f) \subseteq {f.stops[i].stop_id : i \in 1..Len(f.stops)}

\* active_days of the trip a stop_times row refers to: 0 when trips.txt does not
\* list the trip or the trip's service has no calendar data
VisitWeight(f, i) ==
    LET gsad == get_service_active_days(f.calendar, f.calendar_dates)
        hits == {j \in 1..Len(f.trips) : f.trips[j].trip_id = f.stop_times[i].trip_id}
    IN  IF hits = {} THEN 0
        ELSE ActiveDaysOf(gsad, f.trips[CHOOSE j \in hits : TRUE].service_id)

ExpectedEvents(f, stop_id) ==
    LET visits == {i \in 1..Len(f.stop_times) : f.stop_times[i].stop_id = stop_id}
    IN  SumFn([i \in visits |-> VisitWeight(f, i)], visits)

WindowDays(f) == get_service_active_days(f.calendar, f.calendar_dates).total_days

ServiceDayCountsOf(f) ==
    get_service_active_days(f.calendar, f.calendar_dates).service_days_count

\* C8: for every stop, total_events is the sum over its stop_times rows (a trip
\* visiting twice counts twice) of the active_days of the row's trip, 0 for a
\* trip that trips.txt does not list or whose service has no calendar data, and
\* avg_daily_freq = total_events / window_days; only stops with a positive
\* frequency are kept.  Trips with active_days 4 and 6 in a 10-day window give 1.
C8_StopEvents ==
    (pc = "processed" /\ UniqueTripIds(feed)) =>
        /\ ~out.raised
        /\ \A s \in StopTimeStops(feed) :
              IF ExpectedEvents(feed, s) > 0
              THEN /\ s \in DOMAIN out.stop_total
                   /\ out.stop_total[s].num * WindowDays(feed)
                          = ExpectedEvents(feed, s) * out.stop_total[s].den
              ELSE s \notin DOMAIN out.stop_total
        /\ DOMAIN out.stop_total \subseteq StopTimeStops(feed)
        /\ feed = ScenarioTwoTrips =>
              /\ WindowDays(feed) = 10
              /\ ExpectedEvents(feed, "p") = 4 + 6
              /\ out.stop_total["p"] = [num |-> 1, den |-> 1]

C8_Witness ==
    /\ pc = "processed"
    /\ feed = ScenarioLoop
    /\ UniqueTripIds(feed)
    /\ WindowDays(feed) = 3
    /\ ExpectedEvents(feed, "p") = 4
    /\ ExpectedEvents(feed, "q") = 0
    /\ DOMAIN out.stop_total = {"p"}
    /\ out.stop_total["p"] = [num |-> 4, den |-> 3]

AggStopCount(table) == SumFn([k \in 1..Len(table) |-> table[k].stop_count], 1..Len(table))

\* C9: for one feed (at least one area, stops.txt lists every stop once), the
\* sum of stop_count over the per-feed table equals the number of distinct
\* stops with avg_daily_freq > 0.
C9_StopCountRoundTrip ==
    (/\ pc = "processed"
     /\ areas_gdf # <<>>
     /\ UniqueStopIds(feed)
     /\ StopsResolve(feed)) =>
        AggStopCount(out.agg) = Cardinality(DOMAIN out.stop_total)

\* C10: each stop row that enters the spatial join is assigned to exactly one
\* area, an area at minimum planar distance from it.
C10_OneNearestArea ==
    (pc = "processed" /\ areas_gdf # <<>>) =>
        \A i \in StopsGdf(feed.stops, out.stop_total) :
            /\ Cardinality({p \in out.joined : p[1] = i}) = 1
            /\ \A p \in out.joined :
                  p[1] = i =>
                      \A l \in 1..Len(areas_gdf) :
                          Dist2(feed.stops[i], areas_gdf[p[2]]) <= Dist2(feed.stops[i], areas_gdf[l])

StopsListed(f) == {f.stops[i].stop_id : i \in 1..Len(f.stops)}

AssignedStops(f, joined) == {f.stops[p[1]].stop_id : p \in joined}

\* C11 as stated: with at least one area, every stop_id that has a positive
\* avg_daily_freq computed from stop_times.txt appears in the stop-to-area
\* assignment.
C11_NoStopDropped ==
    (pc = "processed" /\ areas_gdf # <<>>) =>
        DOMAIN out.stop_total \subseteq AssignedStops(feed, out.joined)

\* C11 as amended: with at least one area, every stop with a positive
\* avg_daily_freq that stops.txt lists appears in the assignment, each of its
\* stops.txt rows being assigned, also when it lies outside every area; a
\* stop_id of stop_times.txt that stops.txt does not list is dropped by the
\* merge with the stop geometry and is never assigned.
C11_ListedStopsAssigned ==
    (pc = "processed" /\ areas_gdf # <<>>) =>
        /\ \A i \in 1..Len(feed.stops) :
              feed.stops[i].stop_id \in DOMAIN out.stop_total
                  => \E l \in 1..Len(areas_gdf) : <<i, l>> \in out.joined
        /\ (DOMAIN out.stop_total \cap StopsListed(feed)) \subseteq AssignedStops(feed, out.joined)
        /\ AssignedStops(feed, out.joined) \subseteq StopsListed(feed)

C11_Witness ==
    /\ pc = "processed"
    /\ areas_gdf = <<Area7, Area9, Area11>>
    /\ \E i \in 1..Len(feed.stops) :
          /\ feed.stops[i].stop_id \in DOMAIN out.stop_total
          /\ \A l \in 1..Len(areas_gdf) : Dist2(feed.stops[i], areas_gdf[l]) > 0
          /\ \E l \in 1..Len(areas_gdf) : <<i, l>> \in out.joined

\* the stops.txt rows assigned to the area in position l of the area set
AssignedTo(joined, l) == {p[1] : p \in {q \in joined : q[2] = l}}

\* C15: in the per-feed table (stops.txt lists no stop twice) every area with
\* at least one assigned stop has exactly one row, whose transit_density is
\* the sum of avg_daily_freq over the stops assigned to the area and whose
\* stop_count is their number; an area without an assigned stop has no row,
\* and the table has no other rows.
C15_AreaAggregation ==
    (pc = "processed" /\ UniqueStopIds(feed)) =>
        /\ \A l \in 1..Len(areas_gdf) :
              LET assigned == AssignedTo(out.joined, l)
                  rows == {k \in 1..Len(out.agg) : out.agg[k].BGRI2021 = areas_gdf[l].BGRI2021}
              IN  IF assigned = {} THEN rows = {}
                  ELSE /\ Cardinality(rows) = 1
                       /\ \A k \in rows :
                             /\ out.agg[k].transit_density =
                                    RatSumFn([i \in assigned |->
                                                 out.stop_total[feed.stops[i].stop_id]],
                                             assigned)
                             /\ out.agg[k].stop_count = Cardinality(assigned)
        /\ \A k \in 1..Len(out.agg) :
              \E l \in 1..Len(areas_gdf) : out.agg[k].BGRI2021 = areas_gdf[l].BGRI2021

C15_Witness ==
    /\ pc = "processed"
    /\ feed = ScenarioSharedArea
    /\ areas_gdf = <<Area7, Area9, Area11>>
    /\ out.agg = <<[BGRI2021 |-> 7, transit_density |-> [num |-> 2, den |-> 1],
                    stop_count |-> 2],
                   [BGRI2021 |-> 9, transit_density |-> [num |-> 2, den |-> 3],
                    stop_count |-> 1]>>

\* C17: only stops with avg_daily_freq > 0 reach the spatial join: every
\* stops.txt row in the join output has a stop_id whose stop_times rows carry
\* a positive number of events, so a positive avg_daily_freq, and every row
\* of the per-feed table has a positive transit_density and counts only such
\* stops; a stop whose visits all weigh 0 is never assigned.
C17_OnlyPositiveStopsJoined ==
    pc = "processed" =>
        /\ \A p \in out.joined :
              LET s == feed.stops[p[1]].stop_id IN
              /\ s \in DOMAIN out.stop_total
              /\ out.stop_total[s].num > 0 /\ out.stop_total[s].den > 0
              /\ UniqueTripIds(feed) => ExpectedEvents(feed, s) > 0
        /\ \A k \in 1..Len(out.agg) :
              /\ out.agg[k].transit_density.num > 0
              /\ out.agg[k].stop_count > 0
        /\ \A s \in StopTimeStops(feed) :
              (UniqueTripIds(feed) /\ ExpectedEvents(feed, s) = 0)
                  => s \notin AssignedStops(feed, out.joined)

C17_Witness ==
    /\ pc = "processed"
    /\ feed = ScenarioLoop
    /\ areas_gdf = <<Area7, Area9>>
    /\ ExpectedEvents(feed, "q") = 0
    /\ "q" \in StopsListed(feed)
    /\ AssignedStops(feed, out.joined) = {"p"}
    /\ out.stop_total["p"].num > 0

VisitsOf(f, stop_id) == {i \in 1..Len(f.stop_times) : f.stop_times[i].stop_id = stop_id}

\* C26: in a feed in which every date parses, every service's active_days
\* and every trip's active_days are at most window_days; so (trips.txt lists
\* no trip twice) one stop_times row adds at most 1 to the avg_daily_freq of
\* its stop: total_events is at most the number of rows times window_days,
\* and avg_daily_freq at most the number of stop_times rows of the stop.
C26_FrequencyBounded ==
    (pc = "processed" /\ AllDatesParse(feed)) =>
        LET gsad == get_service_active_days(feed.calendar, feed.calendar_dates) IN
        /\ \A sid \in DOMAIN gsad.service_days_count :
              gsad.service_days_count[sid] <= gsad.total_days
        /\ \A j \in 1..Len(feed.trips) :
              TripActiveDays(feed.trips[j], gsad.service_days_count) <= gsad.total_days
        /\ UniqueTripIds(feed) =>
              \A s \in StopTimeStops(feed) :
                  /\ \A i \in VisitsOf(feed, s) : VisitWeight(feed, i) <= gsad.total_days
                  /\ ExpectedEvents(feed, s) <= Cardinality(VisitsOf(feed, s)) * gsad.total_days
                  /\ s \in DOMAIN out.stop_total =>
                        out.stop_total[s].num
                            <= Cardinality(VisitsOf(feed, s)) * out.stop_total[s].den

C26_Witness ==
    /\ pc = "processed"
    /\ feed = ScenarioEveryDay
    /\ AllDatesParse(feed)
    /\ WindowDays(feed) = 3
    /\ ServiceDayCountsOf(feed)["B"] = 3
    /\ Cardinality(VisitsOf(feed, "p")) = 3
    /\ out.stop_total["p"] = [num |-> 7, den |-> 3]

----------------------------------------------------------------------------
(* download_and_unzip *)

\* The files of one feed: dir is the extraction folder ("absent", "empty" or
\* "full"), zip the archive ("absent", "valid", or "corrupt" for a file that is
\* no readable archive).  net is what the download does when it is attempted:
\* "ok", "not_zip" (a complete response that is no archive), "refused" (an error
\* before the file is opened) or "broken" (an error while chunks are written).
DirStates == {"absent", "empty", "full"}
ZipStates == {"absent", "valid", "corrupt"}
NetOutcomes == {"ok", "not_zip", "refused", "broken"}

\* lines 92-102: rmtree of an existing folder, then extraction
Unzip(dir, zip) ==
    IF zip = "valid"
    THEN [ok |-> TRUE, dir |-> "full", zip |-> zip, note |-> "Unzipped"]
    ELSE [ok |-> FALSE, dir |-> "absent", zip |-> zip, note |-> "Unzip failed"]

\* the result carries the message of the branch taken (lines 73, 89, 101)
download_and_unzip(dir, zip, net) ==
    IF dir = "full"
    THEN [ok |-> TRUE, dir |-> dir, zip |-> zip, note |-> "Folder exists"]
    ELSE IF zip # "absent"
    THEN Unzip(dir, zip)
    ELSE IF net = "ok" THEN Unzip(dir, "valid")
    ELSE IF net = "not_zip" THEN Unzip(dir, "corrupt")
    ELSE IF net = "refused"
    THEN [ok |-> FALSE, dir |-> dir, zip |-> "absent", note |-> "Download failed"]
    ELSE [ok |-> FALSE, dir |-> dir, zip |-> "corrupt", note |-> "Download failed"]

----------------------------------------------------------------------------
(* The combine step of main (lines 303-315) *)

RECURSIVE Concat(_)
Concat(tables) ==
    IF tables = <<>> THEN <<>> ELSE Head(tables) \o Concat(Tail(tables))

\* combined_df.groupby("BGRI2021").sum().reset_index()
GroupByFirst(combined_df) ==
    LET ids == {combined_df[k].BGRI2021 : k \in 1..Len(combined_df)}
        order == SortedSeq(ids)
        first(a) == SetMin({k \in 1..Len(combined_df) : combined_df[k].BGRI2021 = a})
    IN  [n \in 1..Len(order) |-> combined_df[first(order[n])]]

GroupByCount(combined_df) ==
    LET ids == {combined_df[k].BGRI2021 : k \in 1..Len(combined_df)}
        order == SortedSeq(ids)
        rowsOf(a) == {k \in 1..Len(combined_df) : combined_df[k].BGRI2021 = a}
    IN  [n \in 1..Len(order) |->
            [BGRI2021 |-> order[n],
             transit_density |->
                 RatSumFn([k \in rowsOf(order[n]) |-> combined_df[k].transit_density],
                          rowsOf(order[n])),
             stop_count |-> Cardinality(rowsOf(order[n]))]]

GroupByLast(combined_df) ==
    LET ids == {combined_df[k].BGRI2021 : k \in 1..Len(combined_df)}
        order == SortedSeq(ids)
        last(a) == SetMax({k \in 1..Len(combined_df) : combined_df[k].BGRI2021 = a})
    IN  [n \in 1..Len(order) |-> combined_df[last(order[n])]]

GroupBySumDistinct(combined_df) ==
    LET ids == {combined_df[k].BGRI2021 : k \in 1..Len(combined_df)}
        order == SortedSeq(ids)
        distinctRows(a) == {combined_df[k] : k \in {j \in 1..Len(combined_df) :
                                                        combined_df[j].BGRI2021 = a}}
    IN  [n \in 1..Len(order) |->
            [BGRI2021 |-> order[n],
             transit_density |->
                 RatSumFn([r \in distinctRows(order[n]) |-> r.transit_density],
                          distinctRows(order[n])),
             stop_count |->
                 SumFn([r \in distinctRows(order[n]) |-> r.stop_count],
                       distinctRows(order[n]))]]

GroupBySum(combined_df) ==
    LET ids == {combined_df[k].BGRI2021 : k \in 1..Len(combined_df)}
        order == SortedSeq(ids)
        rowsOf(a) == {k \in 1..Len(combined_df) : combined_df[k].BGRI2021 = a}
    IN  [n \in 1..Len(order) |->
            [BGRI2021 |-> order[n],
             transit_density |->
                 RatSumFn([k \in rowsOf(order[n]) |-> combined_df[k].transit_density],
                          rowsOf(order[n])),
             stop_count |->
                 SumFn([k \in rowsOf(order[n]) |-> combined_df[k].stop_count],
                       rowsOf(order[n]))]]

\* areas_gdf.merge(final_stats, on="BGRI2021", how="left") followed by fillna(0)
MergeInner(areas, final_stats) ==
    LET kept == SelectSeq(areas, LAMBDA a :
                    \E n \in 1..Len(final_stats) : final_stats[n].BGRI2021 = a.BGRI2021)
        hit(a) == CHOOSE n \in 1..Len(final_stats) : final_stats[n].BGRI2021 = a.BGRI2021
    IN  [k \in 1..Len(kept) |->
            [BGRI2021 |-> kept[k].BGRI2021, geometry |-> kept[k],
             transit_density |-> final_stats[hit(kept[k])].transit_density,
             stop_count |-> final_stats[hit(kept[k])].stop_count]]

MergeLeftFillZero(areas, final_stats) ==
    LET hits(a) == {n \in 1..Len(final_stats) : final_stats[n].BGRI2021 = a.BGRI2021}
    IN  [k \in 1..Len(areas) |->
            [BGRI2021 |-> areas[k].BGRI2021, geometry |-> areas[k],
             transit_density |->
                 IF hits(areas[k]) = {} THEN Zero
                 ELSE final_stats[CHOOSE n \in hits(areas[k]) : TRUE].transit_density,
             stop_count |->
                 IF hits(areas[k]) = {} THEN 0
                 ELSE final_stats[CHOOSE n \in hits(areas[k]) : TRUE].stop_count]]

----------------------------------------------------------------------------
(* Inputs of main *)

\* FEEDS
NumFeeds == 4

NoFeed == [defect |-> "none", stops |-> <<>>, trips |-> <<>>, stop_times |-> <<>>,
           calendar |-> CalendarNone, calendar_dates |-> <<>>]

TwoDayCalendar ==
    [calendar |-> [present |-> TRUE,
                   rows |-> <<[service_id |-> "A", start_date |-> Day(20240101),
                               end_date |-> Day(20240102), days |-> AllWeek]>>],
     calendar_dates |-> <<[service_id |-> "B", date |-> Day(20240101),
                           exception_type |-> 1]>>]

ThreeDayCalendar ==
    [calendar |-> [present |-> TRUE,
                   rows |-> <<[service_id |-> "A", start_date |-> Day(20240101),
                               end_date |-> Day(20240103),
                               days |-> <<1, 0, 1, 0, 1, 0, 1>>]>>],
     calendar_dates |-> <<>>]

\* three stops inside area 7, each visited by one trip that is active on 2 of
\* the 3 days of the window: area 7 gets density 2.0 from 3 stops
FeedThreeStops ==
    [defect |-> "none",
     stops |-> <<[stop_id |-> "p", x |-> 1, y |-> 1], [stop_id |-> "q", x |-> 1, y |-> 1],
                 [stop_id |-> "r", x |-> 0, y |-> 1]>>,
     trips |-> <<[trip_id |-> "t1", service_id |-> "A"]>>,
     stop_times |-> <<[stop_id |-> "p", trip_id |-> "t1"], [stop_id |-> "q", trip_id |-> "t1"],
                      [stop_id |-> "r", trip_id |-> "t1"]>>,
     calendar |-> ThreeDayCalendar.calendar,
     calendar_dates |-> ThreeDayCalendar.calendar_dates]

\* one stop at `point`, visited by a trip active on 2 days and a trip active on
\* 1 day of a 2-day window: density 1.5 from 1 stop
FeedOneStop(point) ==
    [defect |-> "none",
     stops |-> <<[stop_id |-> "p", x |-> point[1], y |-> point[2]]>>,
     trips |-> <<[trip_id |-> "t1", service_id |-> "A"],
                 [trip_id |-> "t2", service_id |-> "B"]>>,
     stop_times |-> <<[stop_id |-> "p", trip_id |-> "t1"],
                      [stop_id |-> "p", trip_id |-> "t2"]>>,
     calendar |-> TwoDayCalendar.calendar,
     calendar_dates |-> TwoDayCalendar.calendar_dates]

\* a calendar.txt row and a calendar_dates.txt row none of whose dates parse
UnparseableCalendar ==
    [calendar |-> [present |-> TRUE,
                   rows |-> <<[service_id |-> "A", start_date |-> Day(20240100),
                               end_date |-> Day(20240132), days |-> AllWeek]>>],
     calendar_dates |-> <<[service_id |-> "B", date |-> Day(20240132),
                           exception_type |-> 1]>>]

\* service A has a rule that starts on 2024-01-03 and ends on 2024-01-01,
\* service B an Added exception on 2024-01-01
InvertedCalendar ==
    [calendar |-> [present |-> TRUE,
                   rows |-> <<[service_id |-> "A", start_date |-> Day(20240103),
                               end_date |-> Day(20240101), days |-> AllWeek]>>],
     calendar_dates |-> <<[service_id |-> "B", date |-> Day(20240101),
                           exception_type |-> 1]>>]

\* the feeds a run may meet: the two above, a feed without any calendar data,
\* a feed none of whose dates parse, a feed whose only stop is visited by a
\* trip that trips.txt does not list, a feed whose rule ends before it starts,
\* a feed with an unreadable CSV, a feed whose calendar.txt lacks start_date
MainFeeds ==
    {FeedThreeStops}
    \cup {FeedOneStop(pt) : pt \in StopPoints}
    \cup {[FeedOneStop(<<1, 1>>) EXCEPT !.calendar = CalendarNone, !.calendar_dates = <<>>],
          [FeedOneStop(<<1, 1>>) EXCEPT !.calendar = UnparseableCalendar.calendar,
                                        !.calendar_dates = UnparseableCalendar.calendar_dates],
          [FeedOneStop(<<1, 1>>) EXCEPT !.stop_times = <<[stop_id |-> "p", trip_id |-> "t9"]>>],
          [FeedOneStop(<<1, 1>>) EXCEPT !.calendar = InvertedCalendar.calendar,
                                        !.calendar_dates = InvertedCalendar.calendar_dates],
          [FeedOneStop(<<1, 1>>) EXCEPT !.defect = "csv"],
          [FeedOneStop(<<1, 1>>) EXCEPT !.defect = "calendar_column"]}

----------------------------------------------------------------------------
(* main *)

Init ==
    /\ pc = "start"
    /\ areas_present \in BOOLEAN
    /\ areas_gdf \in (IF areas_present THEN AreaLayouts ELSE {<<>>})
    /\ idx = 1
    /\ fs = [dir |-> "absent", zip |-> "absent"]
    /\ feed = NoFeed
    /\ out = NoResult
    /\ results = <<>>
    /\ final_gdf = NoOutput
    /\ log = <<>>

\* lines 278-288
LoadAreasNoCheck ==
    /\ pc = "start"
    /\ pc' = "download"
    /\ UNCHANGED <<areas_present, areas_gdf, idx, fs, feed, out, results, final_gdf, log>>

LoadAreas ==
    /\ pc = "start"
    /\ IF areas_present
       THEN /\ pc' = "download"
            /\ log' = log
       ELSE /\ pc' = "exit1"
            /\ log' = Append(log, [feed |-> 0, event |-> "Areas GeoJSON not found",
                                   agg |-> EmptyDataFrame])
    /\ UNCHANGED <<areas_present, areas_gdf, idx, fs, feed, out, results, final_gdf>>

\* after feed idx: the next feed, or the end of the loop
AfterFeedEarly == IF idx >= NumFeeds - 1 THEN "combine" ELSE "download"

AfterFeed == IF idx = NumFeeds THEN "combine" ELSE "download"

\* line 292 and the else branch of line 296
DownloadAndUnzipSilent ==
    /\ pc = "download"
    /\ \E dir \in DirStates, zip \in ZipStates, net \in NetOutcomes :
          LET r == download_and_unzip(dir, zip, net) IN
          /\ fs' = [dir |-> r.dir, zip |-> r.zip]
          /\ out' = [raised |-> FALSE, note |-> r.note]
          /\ IF r.ok
             THEN /\ pc' = "process"
                  /\ UNCHANGED <<idx, log>>
             ELSE /\ pc' = AfterFeed
                  /\ idx' = idx + 1
                  /\ UNCHANGED log
    /\ UNCHANGED <<areas_present, areas_gdf, feed, results, final_gdf>>

DownloadAndUnzip ==
    /\ pc = "download"
    /\ \E dir \in DirStates, zip \in ZipStates, net \in NetOutcomes :
          LET r == download_and_unzip(dir, zip, net) IN
          /\ fs' = [dir |-> r.dir, zip |-> r.zip]
          /\ out' = [raised |-> FALSE, note |-> r.note]
          /\ IF r.ok
             THEN /\ pc' = "process"
                  /\ UNCHANGED <<idx, log>>
             ELSE /\ pc' = AfterFeed
                  /\ idx' = idx + 1
                  /\ log' = Append(log, [feed |-> idx, event |-> "Skipping due to errors",
                                         agg |-> EmptyDataFrame])
    /\ UNCHANGED <<areas_present, areas_gdf, feed, results, final_gdf>>

\* lines 293-295; an exception raised by process_feed ends the run
ProcessFeedEmptyFatal ==
    /\ pc = "process"
    /\ \E f \in MainFeeds : feed' = f
    /\ out' = process_feed(feed', areas_gdf)
    /\ IF out'.raised \/ out'.agg = EmptyDataFrame
       THEN /\ pc' = "crashed"
            /\ log' = Append(log, [feed |-> idx, event |-> out'.note,
                                   agg |-> EmptyDataFrame])
            /\ UNCHANGED <<idx, results>>
       ELSE /\ pc' = AfterFeed
            /\ idx' = idx + 1
            /\ results' = Append(results, out'.agg)
            /\ log' = Append(log, [feed |-> idx, event |-> out'.note, agg |-> out'.agg])
    /\ UNCHANGED <<areas_present, areas_gdf, fs, final_gdf>>

ProcessFeed ==
    /\ pc = "process"
    /\ \E f \in MainFeeds : feed' = f
    /\ out' = process_feed(feed', areas_gdf)
    /\ IF out'.raised
       THEN /\ pc' = "crashed"
            /\ log' = Append(log, [feed |-> idx, event |-> out'.note,
                                   agg |-> EmptyDataFrame])
            /\ UNCHANGED <<idx, results>>
       ELSE /\ pc' = AfterFeed
            /\ idx' = idx + 1
            /\ results' = IF out'.agg # EmptyDataFrame THEN Append(results, out'.agg)
                          ELSE results
            /\ log' = Append(log, [feed |-> idx, event |-> out'.note, agg |-> out'.agg])
    /\ UNCHANGED <<areas_present, areas_gdf, fs, final_gdf>>

\* lines 299-319
CombineAlways ==
    /\ pc = "combine"
    /\ pc' = "done"
    /\ final_gdf' = [written |-> TRUE,
                             rows |-> MergeLeftFillZero(areas_gdf,
                                          GroupBySum(Concat(results)))]
    /\ UNCHANGED <<areas_present, areas_gdf, idx, fs, feed, out, results, log>>

Combine ==
    /\ pc = "combine"
    /\ IF results = <<>>
       THEN /\ pc' = "exit1"
            /\ log' = Append(log, [feed |-> 0, event |-> "No data calculated from any feed",
                                   agg |-> EmptyDataFrame])
            /\ UNCHANGED final_gdf
       ELSE /\ pc' = "done"
            /\ final_gdf' = [written |-> TRUE,
                             rows |-> MergeLeftFillZero(areas_gdf,
                                          GroupBySum(Concat(results)))]
            /\ UNCHANGED log
    /\ UNCHANGED <<areas_present, areas_gdf, idx, fs, feed, out, results>>

Next == LoadAreas \/ DownloadAndUnzip \/ ProcessFeed \/ Combine

Spec == Init /\ [][Next]_vars

----------------------------------------------------------------------------
(* Properties of main *)

Finished == pc \in {"done", "exit1"}

\* the rows that the handled feeds' tables hold for area a: <<log entry, row>>
Contributions(a) ==
    {p \in (1..Len(log)) \X (1..Len(areas_gdf)) :
        /\ p[2] <= Len(log[p[1]].agg)
        /\ log[p[1]].agg[p[2]].BGRI2021 = a}

AllZero(table) ==
    \A n \in 1..Len(table) : table[n].transit_density = Zero /\ table[n].stop_count = 0

\* C1 as stated: with the area set present and no feed yielding rows, main
\* still writes the final table, one all-zero record per area, and does not
\* end in a fatal error.
C1_ZeroFeedsStillWritten ==
    (Finished /\ areas_present /\ results = <<>>) =>
        /\ pc = "done"
        /\ final_gdf.written
        /\ Len(final_gdf.rows) = Len(areas_gdf)
        /\ AllZero(final_gdf.rows)

\* C1 as amended: with the area set present and no feed yielding rows, main
\* writes no output and ends with exit status 1 after reporting "No data
\* calculated from any feed"; an output is written only when some feed yielded rows.
C1_ZeroFeedsExit ==
    /\ (areas_present /\ idx > NumFeeds /\ results = <<>> /\ pc # "combine") =>
          /\ pc = "exit1"
          /\ ~final_gdf.written
          /\ log[Len(log)].event = "No data calculated from any feed"
    /\ final_gdf.written => (pc = "done" /\ results # <<>>)

C1_Witness ==
    /\ pc = "exit1"
    /\ areas_present
    /\ Len(areas_gdf) = 2
    /\ results = <<>>
    /\ ~final_gdf.written
    /\ \E i \in 1..Len(log) : log[i].event = "Skipping due to errors"
    /\ \E i \in 1..Len(log) : log[i].event = "No valid date information found"

\* C2: a failure while handling one feed never ends the run: every configured
\* feed is handled, and the final table is the combination of the tables of
\* the feeds that did not fail.
C2_FeedErrorsAreLocal ==
    /\ pc # "crashed"
    /\ (Finished /\ areas_present) =>
          \A i \in 1..NumFeeds : \E n \in 1..Len(log) : log[n].feed = i
    /\ pc = "done" =>
          final_gdf.rows = MergeLeftFillZero(areas_gdf,
                          GroupBySum(Concat([n \in 1..Len(log) |-> log[n].agg])))

TableA == <<[BGRI2021 |-> 7, transit_density |-> [num |-> 2, den |-> 1], stop_count |-> 3]>>
TableB == <<[BGRI2021 |-> 7, transit_density |-> [num |-> 3, den |-> 2], stop_count |-> 1]>>

\* C3: in the final table every supplied area has transit_density equal to the
\* sum of the transit_density the handled feeds' tables hold for it, stop_count
\* equal to the sum of their stop_count, and 0 and 0 when no feed contributed;
\* {7: 2.0, 3} and {7: 1.5, 1} over areas {7, 9} give {7: 3.5, 4}, {9: 0, 0}.
C3_FinalIsSumOverFeeds ==
    pc = "done" =>
        /\ \A k \in 1..Len(areas_gdf) :
              \E n \in 1..Len(final_gdf.rows) : final_gdf.rows[n].BGRI2021 = areas_gdf[k].BGRI2021
        /\ \A n \in 1..Len(final_gdf.rows) :
              LET C == Contributions(final_gdf.rows[n].BGRI2021) IN
              /\ final_gdf.rows[n].transit_density =
                     RatSumFn([p \in C |-> log[p[1]].agg[p[2]].transit_density], C)
              /\ final_gdf.rows[n].stop_count =
                     SumFn([p \in C |-> log[p[1]].agg[p[2]].stop_count], C)
              /\ C = {} => (final_gdf.rows[n].transit_density = Zero /\ final_gdf.rows[n].stop_count = 0)
        /\ (results = <<TableA, TableB>> /\ areas_gdf = <<Area7, Area9>>) =>
              /\ final_gdf.rows[1].transit_density = [num |-> 7, den |-> 2]
              /\ final_gdf.rows[1].stop_count = 4
              /\ final_gdf.rows[2].transit_density = Zero
              /\ final_gdf.rows[2].stop_count = 0

C3_Witness ==
    /\ pc = "done"
    /\ results = <<TableA, TableB>>
    /\ areas_gdf = <<Area7, Area9>>
    /\ final_gdf.rows[1].BGRI2021 = 7
    /\ final_gdf.rows[1].transit_density = [num |-> 7, den |-> 2]
    /\ final_gdf.rows[1].stop_count = 4
    /\ final_gdf.rows[2].BGRI2021 = 9
    /\ final_gdf.rows[2].stop_count = 0

NoDateDerivable(f) ==
    /\ f.defect = "none"
    /\ (StartOrds(f) \cup EndOrds(f) \cup ExcOrds(f)) \subseteq {None}

OkTables == [n \in 1..Len(log) |-> IF log[n].event = "ok" THEN log[n].agg ELSE EmptyDataFrame]

\* C12: a feed from whose calendar rules and exceptions no date can be derived
\* is reported ("No valid date information found") and yields no rows: handling
\* it leaves the list of per-feed tables unchanged and moves on to the next
\* feed, and a final table that is written is the combination of the tables of
\* the other feeds alone.
C12_NoDatesFeedSkipped ==
    /\ [][(pc = "process" /\ NoDateDerivable(feed')) =>
             /\ ~out'.raised
             /\ out'.note = "No valid date information found"
             /\ out'.agg = EmptyDataFrame
             /\ results' = results
             /\ idx' = idx + 1
             /\ pc' = AfterFeed
             /\ log' = Append(log, [feed |-> idx, event |-> "No valid date information found",
                                    agg |-> EmptyDataFrame])]_vars
    /\ [](pc = "done" =>
             final_gdf.rows = MergeLeftFillZero(areas_gdf, GroupBySum(Concat(OkTables))))

C12_Witness ==
    /\ pc = "done"
    /\ \E i, j, k \in 1..Len(log) :
          /\ i < j /\ j < k
          /\ log[i].event = "ok" /\ log[i].agg # EmptyDataFrame
          /\ log[j].event = "No valid date information found"
          /\ log[k].event = "ok" /\ log[k].agg # EmptyDataFrame
    /\ Len(results) = 2
    /\ final_gdf.rows = MergeLeftFillZero(areas_gdf, GroupBySum(Concat(results)))

\* C16: when the area input is missing the run ends in a fatal error right
\* after the check: it reports "Areas GeoJSON not found" and exits with status
\* 1; no feed is downloaded, extracted or processed and no output is written.
C16_MissingAreasFatal ==
    ~areas_present =>
        /\ pc \in {"start", "exit1"}
        /\ pc = "exit1" =>
              log = <<[feed |-> 0, event |-> "Areas GeoJSON not found", agg |-> EmptyDataFrame]>>
        /\ pc = "start" => log = <<>>
        /\ fs = [dir |-> "absent", zip |-> "absent"]
        /\ idx = 1
        /\ feed = NoFeed
        /\ out = NoResult
        /\ results = <<>>
        /\ ~final_gdf.written

C16_Witness ==
    /\ ~areas_present
    /\ pc = "exit1"
    /\ Len(log) = 1
    /\ log[1].event = "Areas GeoJSON not found"
    /\ ~final_gdf.written

\* C18: no deduplication across feeds.  When the list of per-feed tables holds
\* the same table twice (the same feed processed twice) and nothing else, the
\* final table has, for every area, twice the transit_density and twice the
\* stop_count of the final table obtained from that table combined once.
C18_NoDeduplication ==
    (pc = "done" /\ Len(results) = 2 /\ results[1] = results[2]) =>
        LET once == MergeLeftFillZero(areas_gdf, GroupBySum(Concat(<<results[1]>>)))
        IN  /\ Len(final_gdf.rows) = Len(once)
            /\ \A n \in 1..Len(once) :
                  /\ final_gdf.rows[n].BGRI2021 = once[n].BGRI2021
                  /\ final_gdf.rows[n].transit_density =
                         RatAdd(once[n].transit_density, once[n].transit_density)
                  /\ final_gdf.rows[n].stop_count = 2 * once[n].stop_count

C18_Witness ==
    /\ pc = "done"
    /\ results = <<TableB, TableB>>
    /\ areas_gdf = <<Area7, Area9>>
    /\ final_gdf.rows[1].BGRI2021 = 7
    /\ final_gdf.rows[1].transit_density = [num |-> 3, den |-> 1]
    /\ final_gdf.rows[1].stop_count = 2
    /\ final_gdf.rows[2].transit_density = Zero
    /\ final_gdf.rows[2].stop_count = 0

NoPositiveStop(f) ==
    /\ f.defect = "none"
    /\ \A s \in StopTimeStops(f) : ExpectedEvents(f, s) = 0

NonEmptyTables == SelectSeq([n \in 1..Len(log) |-> log[n].agg], LAMBDA t : t # EmptyDataFrame)

\* C21: a feed that yields no stop with a positive frequency does not fail:
\* process_feed returns an empty table without raising, main goes on to the
\* next feed (or to the combine step) with the list of per-feed tables
\* unchanged, and a final table that is written is the combination of the
\* non-empty tables of the other feeds.
C21_EmptyStopDensityNotFailing ==
    /\ [][(pc = "process" /\ NoPositiveStop(feed')) =>
             /\ ~out'.raised
             /\ out'.stop_total = <<>>
             /\ out'.agg = EmptyDataFrame
             /\ out'.note \in {"ok", "No valid date information found"}
             /\ results' = results
             /\ idx' = idx + 1
             /\ pc' = AfterFeed]_vars
    /\ [](pc = "done" =>
             /\ results = NonEmptyTables
             /\ final_gdf.rows = MergeLeftFillZero(areas_gdf, GroupBySum(Concat(NonEmptyTables))))

C21_Witness ==
    /\ pc = "done"
    /\ Len(log) = NumFeeds
    /\ log[1].event = "ok" /\ log[1].agg # EmptyDataFrame
    /\ log[2].event = "ok" /\ log[2].agg = EmptyDataFrame
    /\ log[3].event = "ok" /\ log[3].agg # EmptyDataFrame
    /\ results = <<log[1].agg, log[3].agg>>
    /\ final_gdf.rows = MergeLeftFillZero(areas_gdf, GroupBySum(Concat(results)))

\* C22: every record of the final output has transit_density >= 0 and
\* stop_count >= 0, and every service of a handled feed has active_days >= 0
\* (a rule that ends before it starts counts 0 days, not a negative number),
\* as has every trip.
C22_NonNegative ==
    /\ \A n \in 1..Len(final_gdf.rows) :
          /\ final_gdf.rows[n].transit_density.num >= 0
          /\ final_gdf.rows[n].transit_density.den > 0
          /\ final_gdf.rows[n].stop_count >= 0
    /\ \A sid \in DOMAIN ServiceDayCountsOf(feed) : ServiceDayCountsOf(feed)[sid] >= 0
    /\ \A j \in 1..Len(feed.trips) : TripActiveDays(feed.trips[j], ServiceDayCountsOf(feed)) >= 0

C22_Witness ==
    /\ pc = "done"
    /\ feed.calendar = InvertedCalendar.calendar
    /\ ServiceDayCountsOf(feed) = [sid \in {"A", "B"} |-> IF sid = "A" THEN 0 ELSE 1]
    /\ areas_gdf = <<Area7, Area9>>
    /\ final_gdf.rows[1].transit_density.num > 0
    /\ final_gdf.rows[1].stop_count > 0
    /\ final_gdf.rows[2].transit_density = Zero
    /\ final_gdf.rows[2].stop_count = 0

FailureNotes ==
    {"Error loading GTFS CSVs", "No valid date information found", "Invalid feed duration"}

\* the entries of the log that name feed i (the feed announced by "[name]",
\* "Processing name..." or "Skipping name")
EntriesOf(i) == {n \in 1..Len(log) : log[n].feed = i}

\* C23: a feed that is left out of the combine step because it failed is
\* reported, under its name, when it fails: a failed download or extraction
\* is followed by "Skipping <name> due to errors", a failure inside
\* process_feed by its message after "Processing <name>..."; reports are
\* never retracted, so when the run ends every configured feed has its entry,
\* and each feed without a table has a failure or skip entry or the entry of
\* an empty result.
C23_FailedFeedsReported ==
    /\ [][(pc = "download" /\ pc' # "process") =>
             /\ out'.note \in {"Download failed", "Unzip failed"}
             /\ log' = Append(log, [feed |-> idx, event |-> "Skipping due to errors",
                                    agg |-> EmptyDataFrame])]_vars
    /\ [][(pc = "process" /\ out'.note \in FailureNotes) =>
             log' = Append(log, [feed |-> idx, event |-> out'.note,
                                 agg |-> EmptyDataFrame])]_vars
    /\ [][Len(log') >= Len(log) /\ SubSeq(log', 1, Len(log)) = log]_vars
    /\ []((Finished /\ areas_present) =>
             \A i \in 1..NumFeeds :
                 /\ Cardinality(EntriesOf(i)) = 1
                 /\ \A n \in EntriesOf(i) :
                       \/ log[n].event = "ok"
                       \/ /\ log[n].event \in FailureNotes \cup {"Skipping due to errors"}
                          /\ log[n].agg = EmptyDataFrame)

C23_Witness ==
    /\ pc = "done"
    /\ Len(log) = NumFeeds
    /\ log[1].event = "Skipping due to errors" /\ log[1].feed = 1
    /\ log[2].event = "Error loading GTFS CSVs" /\ log[2].feed = 2
    /\ log[3].event = "No valid date information found" /\ log[3].feed = 3
    /\ log[4].event = "ok" /\ log[4].feed = 4
    /\ Len(results) = 1

\* the positions of the feeds that the log names, in the order of the entries
LoggedFeeds == SelectSeq([n \in 1..Len(log) |-> log[n].feed], LAMBDA i : i >= 1)

\* C24: feeds are handled one at a time in configured order.  The feed
\* position never goes back and advances by one when a feed is finished;
\* process_feed of a feed starts only from the download step of the same
\* feed, after download_and_unzip returned True; while feed k is being
\* handled exactly the feeds before k have been finished; and the combine
\* step is reached only after all configured feeds were handled.
C24_StrictlySequential ==
    /\ [][idx' = idx \/ idx' = idx + 1]_vars
    /\ [][(pc' = "process" /\ pc # "process") =>
             /\ pc = "download"
             /\ idx' = idx
             /\ fs'.dir = "full"
             /\ out'.note \in {"Folder exists", "Unzipped"}
             /\ log' = log]_vars
    /\ [][pc = "process" => (pc' = "crashed" \/ (idx' = idx + 1 /\ pc' = AfterFeed))]_vars
    /\ [](pc \in {"download", "process"} =>
             /\ idx \in 1..NumFeeds
             /\ LoggedFeeds = [i \in 1..(idx - 1) |-> i])
    /\ [](pc \in {"combine", "done"} =>
             /\ idx = NumFeeds + 1
             /\ LoggedFeeds = [i \in 1..NumFeeds |-> i])
    /\ [][pc' = "combine" => pc \in {"download", "process", "combine"}]_vars

C24_Witness ==
    /\ pc = "done"
    /\ idx = NumFeeds + 1
    /\ LoggedFeeds = <<1, 2, 3, 4>>
    /\ log[1].event = "ok"
    /\ log[2].event = "Skipping due to errors"
    /\ log[3].event = "ok"
    /\ Len(results) >= 2

AggDensity(table) ==
    RatSumFn([k \in 1..Len(table) |-> table[k].transit_density], 1..Len(table))

\* C27: the combine step conserves totals: the sum of stop_count over the
\* records of the final table equals the sum of stop_count over all rows of
\* the combined per-feed tables, and the same holds for transit_density.
C27_TotalsConserved ==
    pc = "done" =>
        /\ AggStopCount(final_gdf.rows) = AggStopCount(Concat(results))
        /\ AggDensity(final_gdf.rows) = AggDensity(Concat(results))

C27_Witness ==
    /\ pc = "done"
    /\ areas_gdf = <<Area7, Area9, Area11>>
    /\ Len(results) = 3
    /\ Len(Concat(results)) = 5
    /\ AggStopCount(Concat(results)) = 7
    /\ AggStopCount(final_gdf.rows) = 7
    /\ \E n \in 1..3 : final_gdf.rows[n].stop_count = 0

PositiveRows(table) ==
    \A k \in 1..Len(table) :
        /\ table[k].stop_count >= 1
        /\ table[k].transit_density.num > 0
        /\ table[k].transit_density.den > 0

\* C28: every row of every per-feed table has stop_count >= 1 and
\* transit_density > 0, and in the final table an area has
\* transit_density > 0 exactly when it has stop_count > 0.
C28_PositiveRows ==
    /\ \A n \in 1..Len(log) : PositiveRows(log[n].agg)
    /\ \A n \in 1..Len(results) : PositiveRows(results[n])
    /\ pc = "done" =>
           \A k \in 1..Len(final_gdf.rows) :
               /\ final_gdf.rows[k].transit_density.den > 0
               /\ final_gdf.rows[k].transit_density.num >= 0
               /\ final_gdf.rows[k].stop_count >= 0
               /\ (final_gdf.rows[k].transit_density.num > 0) <=>
                      (final_gdf.rows[k].stop_count > 0)

C28_Witness ==
    /\ pc = "done"
    /\ \E n \in 1..Len(log) :
           /\ log[n].event = "ok"
           /\ log[n].agg = EmptyDataFrame
           /\ n < Len(log)
    /\ \E n \in 1..Len(log) : Len(log[n].agg) = 2
    /\ \E k \in 1..Len(final_gdf.rows) :
           /\ final_gdf.rows[k].stop_count >= 2
           /\ final_gdf.rows[k].transit_density.num > 0
    /\ \E k \in 1..Len(final_gdf.rows) :
           /\ final_gdf.rows[k].stop_count = 0
           /\ final_gdf.rows[k].transit_density = Zero

\* C30: after download_and_unzip has returned False because the download
\* failed, no file is left at the zip path of the feed, so that a later call
\* with a working download fetches the archive again and succeeds.
C30_NoPartialZip ==
    (pc \in {"download", "combine", "done", "exit1"} /\ out.note = "Download failed") =>
        /\ fs.zip = "absent"
        /\ download_and_unzip(fs.dir, fs.zip, "ok").ok

=============================================================================
